-------------------------- MODULE Spec2Model --------------------------
(***************************************************************************)
(* A model of release.py, the HiveCAD release script.                      *)
(*                                                                         *)
(* A text (a Python str) is a sequence of one-character strings, so that   *)
(* lstrip, split, int() and the f-string formatting are computed the way   *)
(* Python computes them.  One run of main() is a state machine whose       *)
(* program counter pc walks through the source; every external command,    *)
(* every prompt, every file read and every file write is one step, and is  *)
(* appended to log with its outcome.                                       *)
(***************************************************************************)
EXTENDS Integers, Sequences, FiniteSets, TLC

VARIABLES
    pc,               \* position of main() in the source
    exitCode,         \* the value main() returned, Running while it runs
    pkgExists,        \* package.json exists
    tauriExists,      \* src-tauri/tauri.conf.json exists
    pkgVersion,       \* the "version" text held by package.json
    tauriVersion,     \* the "version" text held by tauri.conf.json
    pkgIntact,        \* package.json still holds a complete JSON document
    tauriIntact,      \* tauri.conf.json still holds a complete JSON document
    current_version,  \* main's local current_version
    major,            \* main's locals major, minor, patch
    minor,
    patch,
    increment_type,   \* main's local increment_type
    new_version,      \* main's local new_version
    localTag,         \* the tag v{new_version} exists in the local repository
    remoteTag,        \* the tag v{new_version} exists on the remote
    commits,          \* messages of the commits this run made, oldest first
    invalid,          \* invalid answers given so far at the increment prompt
    log               \* every command, prompt, read and write so far

vars == <<pc, exitCode, pkgExists, tauriExists, pkgVersion, tauriVersion,
          pkgIntact, tauriIntact, current_version, major, minor, patch,
          increment_type, new_version, localTag, remoteTag, commits,
          invalid, log>>

(***************************************************************************)
(* Bounds of the model.                                                    *)
(***************************************************************************)
\* longest version text enumerated character by character
MaxLen == 6
\* largest version component of the version texts a run starts from
MaxComp == 1
\* most invalid answers the user gives at the increment prompt
MaxInvalid == 1

(***************************************************************************)
(* Python text primitives.                                                 *)
(***************************************************************************)
Digits == <<"0", "1", "2", "3", "4", "5", "6", "7", "8", "9">>

IsDigit(c) == \E i \in 1..10 : Digits[i] = c

DigitVal(c) == (CHOOSE i \in 1..10 : Digits[i] = c) - 1

\* str.lstrip("v"): every leading "v" is removed, not only the first
RECURSIVE lstrip_v(_)
lstrip_v(s) ==
    IF s # <<>> /\ Head(s) = "v" THEN lstrip_v(Tail(s)) ELSE s

\* str.strip(): leading and trailing blanks removed (int() does this first)
RECURSIVE strip(_)
strip(s) ==
    IF s = <<>> THEN s
    ELSE IF Head(s) = " " THEN strip(Tail(s))
    ELSE IF s[Len(s)] = " " THEN strip(SubSeq(s, 1, Len(s) - 1))
    ELSE s

\* str.split("."): the segments between the dots, empty segments kept
RECURSIVE split(_)
split(s) ==
    IF \E i \in 1..Len(s) : s[i] = "."
    THEN LET i == CHOOSE k \in 1..Len(s) :
                      s[k] = "." /\ \A j \in 1..(k - 1) : s[j] # "."
         IN  <<SubSeq(s, 1, i - 1)>> \o split(SubSeq(s, i + 1, Len(s)))
    ELSE <<s>>

\* The digits of an int literal, read left to right: a digit extends the
\* value, an underscore is accepted only between two digits.  The result is
\* the value, or -1 when the literal is rejected.
RECURSIVE ScanDigits(_, _, _, _)
ScanDigits(s, i, acc, afterDigit) ==
    IF i > Len(s) THEN (IF afterDigit THEN acc ELSE -1)
    ELSE IF IsDigit(s[i])
         THEN ScanDigits(s, i + 1, acc * 10 + DigitVal(s[i]), TRUE)
    ELSE IF s[i] = "_" /\ afterDigit
         THEN ScanDigits(s, i + 1, acc, FALSE)
    ELSE -1

\* int(text): surrounding blanks are dropped, one sign is accepted, then the
\* digits; anything else raises ValueError (ok = FALSE).
PyInt(seg) ==
    LET t      == strip(seg)
        signed == t # <<>> /\ Head(t) \in {"+", "-"}
        body   == IF signed THEN Tail(t) ELSE t
        n      == ScanDigits(body, 1, 0, FALSE)
    IN  IF n < 0 THEN [ok |-> FALSE, val |-> 0]
        ELSE [ok |-> TRUE,
              val |-> IF signed /\ Head(t) = "-" THEN 0 - n ELSE n]

\* str(int) as an f-string renders it: decimal, "-" before a negative value
RECURSIVE ToStr(_)
ToStr(n) ==
    IF n < 0 THEN <<"-">> \o ToStr(0 - n)
    ELSE IF n < 10 THEN <<Digits[n + 1]>>
    ELSE ToStr(n \div 10) \o <<Digits[(n % 10) + 1]>>

(***************************************************************************)
(* parse_version and format_version.                                       *)
(***************************************************************************)
NoVersion == [ok |-> FALSE, major |-> 0, minor |-> 0, patch |-> 0]

\* parse_version accepting exactly three segments
parse_version_Strict(version_str) ==
    LET parts == split(lstrip_v(version_str))
    IN  IF Len(parts) # 3 THEN NoVersion
        ELSE LET a == PyInt(parts[1])
                 b == PyInt(parts[2])
                 c == PyInt(parts[3])
             IN  IF a.ok /\ b.ok /\ c.ok
                 THEN [ok |-> TRUE, major |-> a.val, minor |-> b.val,
                       patch |-> c.val]
                 ELSE NoVersion

\* parse_version reading a missing third segment as 0
parse_version_Lenient(version_str) ==
    LET parts == split(lstrip_v(version_str))
    IN  IF Len(parts) < 2 THEN NoVersion
        ELSE LET a == PyInt(parts[1])
                 b == PyInt(parts[2])
                 c == IF Len(parts) < 3 THEN [ok |-> TRUE, val |-> 0]
                      ELSE PyInt(parts[3])
             IN  IF a.ok /\ b.ok /\ c.ok
                 THEN [ok |-> TRUE, major |-> a.val, minor |-> b.val,
                       patch |-> c.val]
                 ELSE NoVersion

\* parts[0], parts[1], parts[2] are converted; IndexError (fewer than three
\* parts) and ValueError (int() rejects one) both become the format error.
parse_version(version_str) ==
    LET parts == split(lstrip_v(version_str))
    IN  IF Len(parts) < 3 THEN NoVersion
        ELSE LET a == PyInt(parts[1])
                 b == PyInt(parts[2])
                 c == PyInt(parts[3])
             IN  IF a.ok /\ b.ok /\ c.ok
                 THEN [ok |-> TRUE, major |-> a.val, minor |-> b.val,
                       patch |-> c.val]
                 ELSE NoVersion

\* format_version with minor and patch in each other's place
format_version_Swapped(ma, mi, pa) ==
    ToStr(ma) \o <<".">> \o ToStr(pa) \o <<".">> \o ToStr(mi)

format_version(ma, mi, pa) ==
    ToStr(ma) \o <<".">> \o ToStr(mi) \o <<".">> \o ToStr(pa)


\* get_current_version: data.get("version", "0.0.0")
NoVersionKey == <<"<no version key>">>

DefaultVersion == <<"0", ".", "0", ".", "0">>

get_current_version(held) ==
    IF held = NoVersionKey THEN DefaultVersion ELSE held

\* Increment with the minor increment leaving the patch as it is
Increment_KeepsPatch(t, ma, mi, pa) ==
    IF t = "major" THEN <<ma + 1, 0, 0>>
    ELSE IF t = "minor" THEN <<ma, mi + 1, pa>>
    ELSE IF t = "patch" THEN <<ma, mi, pa + 1>>
    ELSE <<ma, mi, pa>>

\* main, lines 345-355: the triple after the increment
Increment(t, ma, mi, pa) ==
    IF t = "major" THEN <<ma + 1, 0, 0>>
    ELSE IF t = "minor" THEN <<ma, mi + 1, 0>>
    ELSE IF t = "patch" THEN <<ma, mi, pa + 1>>
    ELSE <<ma, mi, pa>>

\* ask_version_increment: the directive of an entered choice, None as "none"
Directive(choice) ==
    IF choice = "0" THEN "none"
    ELSE IF choice = "1" THEN "patch"
    ELSE IF choice = "2" THEN "minor"
    ELSE "major"

ValidChoices == {"0", "1", "2", "3"}

Choices == ValidChoices \cup {"4", ""}

\* git_create_and_push_tag: tag = f"v{version}"
TagName(version) == <<"v">> \o version

\* git_add_and_commit: f"chore: release v{version}"
ReleaseMessage(version) == <<"chore: release v">> \o version

\* a non-empty message typed at commit_pending_changes' prompt
UserMessage == <<"<user message>">>

(***************************************************************************)
(* The state a run starts from.                                            *)
(***************************************************************************)
\* sys.exit(main()) has not been reached
Running == -1

\* the version texts package.json may hold when a run starts
Triples ==
    {<<a, b, c>> : a \in 0..MaxComp, b \in 0..MaxComp, c \in 0..MaxComp}
        \cup {<<0, 9, 9>>}

Canonical == {format_version(t[1], t[2], t[3]) : t \in Triples}

StartTexts ==
    Canonical
        \cup {<<"v">> \o s : s \in Canonical}
        \cup { <<"-", "1", ".", "0", ".", "0">>,
               <<"1", ".", "-", "2", ".", "0">>,
               <<"1", ".", "2">>,
               <<"1", ".", "x", ".", "3">>,
               <<"1", ".", "2", ".", "3", ".", "x">>,
               <<>>,
               NoVersionKey }

TauriTexts == {DefaultVersion, <<"9", ".", "9", ".", "9">>}

Init ==
    /\ pc = "check_files"
    /\ exitCode = Running
    /\ pkgExists \in BOOLEAN
    /\ tauriExists \in BOOLEAN
    /\ pkgVersion \in StartTexts
    /\ tauriVersion \in TauriTexts
    /\ pkgIntact = TRUE
    /\ tauriIntact = TRUE
    /\ current_version = <<>>
    /\ major = 0
    /\ minor = 0
    /\ patch = 0
    /\ increment_type = "unset"
    /\ new_version = <<>>
    /\ localTag \in BOOLEAN
    /\ remoteTag \in BOOLEAN
    /\ commits = <<>>
    /\ invalid = 0
    /\ log = <<>>

files == <<pkgExists, tauriExists, pkgVersion, tauriVersion, pkgIntact,
           tauriIntact>>

locals == <<current_version, major, minor, patch, increment_type,
            new_version>>

repo == <<localTag, remoteTag, commits>>

\* one entry of log: the operation, its text argument (a commit message, a
\* tag, a version written), whether it succeeded (for a prompt: whether the
\* answer was "y", or a valid choice, or a non-empty message) and whether a
\* command's output was non-empty
Emit(op, arg, ok, out) ==
    log' = Append(log, [op |-> op, arg |-> arg, ok |-> ok, out |-> out])

Return(code) ==
    /\ pc' = "done"
    /\ exitCode' = code

Goto(label) ==
    /\ pc' = label
    /\ exitCode' = exitCode

(***************************************************************************)
(* main, lines 315-331: the two files, the working tree, the remote.       *)
(***************************************************************************)
MissingPackageJson ==
    /\ pc = "check_files"
    /\ ~pkgExists
    /\ Return(1)
    /\ UNCHANGED <<files, locals, repo, invalid, log>>

MissingTauriConf ==
    /\ pc = "check_files"
    /\ pkgExists
    /\ ~tauriExists
    /\ Return(1)
    /\ UNCHANGED <<files, locals, repo, invalid, log>>

\* FilesFound without the check of tauri.conf.json
FilesFound_SkipsTauri ==
    /\ pc = "check_files"
    /\ pkgExists
    /\ Goto("git_status")
    /\ UNCHANGED <<files, locals, repo, invalid, log>>

FilesFound ==
    /\ pc = "check_files"
    /\ pkgExists
    /\ tauriExists
    /\ Goto("git_status")
    /\ UNCHANGED <<files, locals, repo, invalid, log>>

\* check_git_status: git status --porcelain
GitStatus ==
    /\ pc = "git_status"
    /\ \E ok \in BOOLEAN, out \in BOOLEAN :
          /\ Emit("git status", <<>>, ok, ok /\ out)
          /\ IF ~ok THEN Return(1)
             ELSE IF out THEN Goto("ask_commit")
             ELSE Goto("git_remote")
    /\ UNCHANGED <<files, locals, repo, invalid>>

\* check_git_status: "Would you like to commit these changes?"
AskCommit ==
    /\ pc = "ask_commit"
    /\ \E yes \in BOOLEAN :
          /\ Emit("ask commit", <<>>, yes, FALSE)
          /\ IF yes THEN Goto("commit_message") ELSE Goto("ask_continue")
    /\ UNCHANGED <<files, locals, repo, invalid>>

\* check_git_status: "Continue without committing?"; False makes main return 1
AskContinue ==
    /\ pc = "ask_continue"
    /\ \E yes \in BOOLEAN :
          /\ Emit("ask continue", <<>>, yes, FALSE)
          /\ IF yes THEN Goto("git_remote") ELSE Return(1)
    /\ UNCHANGED <<files, locals, repo, invalid>>

\* CommitMessage going on to stage and commit under an empty message
CommitMessage_AllowsEmpty ==
    /\ pc = "commit_message"
    /\ \E msg \in {<<>>, UserMessage} :
          /\ Emit("ask message", msg, msg # <<>>, FALSE)
          /\ Goto("stage_all")
    /\ UNCHANGED <<files, locals, repo, invalid>>

\* commit_pending_changes: the message prompt; an empty message returns False
CommitMessage ==
    /\ pc = "commit_message"
    /\ \E msg \in {<<>>, UserMessage} :
          /\ Emit("ask message", msg, msg # <<>>, FALSE)
          /\ IF msg = <<>> THEN Return(1) ELSE Goto("stage_all")
    /\ UNCHANGED <<files, locals, repo, invalid>>

\* StageAll trying once more after a failed stage-all
StageAll_RetriesOnce ==
    /\ pc = "stage_all"
    /\ \E ok \in BOOLEAN :
          /\ Emit("git add -A", <<>>, ok, FALSE)
          /\ IF ok THEN Goto("commit_pending")
             ELSE IF \E i \in 1..Len(log) : log[i].op = "git add -A"
                  THEN Return(1)
             ELSE Goto("stage_all")
    /\ UNCHANGED <<files, locals, repo, invalid>>

\* commit_pending_changes: git add -A
StageAll ==
    /\ pc = "stage_all"
    /\ \E ok \in BOOLEAN :
          /\ Emit("git add -A", <<>>, ok, FALSE)
          /\ IF ok THEN Goto("commit_pending") ELSE Return(1)
    /\ UNCHANGED <<files, locals, repo, invalid>>

\* commit_pending_changes: git commit -m <message>
CommitPending ==
    /\ pc = "commit_pending"
    /\ \E ok \in BOOLEAN :
          /\ Emit("git commit pending", UserMessage, ok, FALSE)
          /\ IF ok
             THEN /\ commits' = Append(commits, UserMessage)
                  /\ Goto("git_remote")
             ELSE /\ commits' = commits
                  /\ Return(1)
    /\ UNCHANGED <<files, locals, localTag, remoteTag, invalid>>

\* check_git_remote: git remote -v; a failure and an empty output both abort
GitRemote ==
    /\ pc = "git_remote"
    /\ \E ok \in BOOLEAN, out \in BOOLEAN :
          /\ Emit("git remote", <<>>, ok, ok /\ out)
          /\ IF ~ok \/ ~out THEN Return(1) ELSE Goto("read_version")
    /\ UNCHANGED <<files, locals, repo, invalid>>

(***************************************************************************)
(* main, lines 333-365: the version, the increment, the confirmation.      *)
(***************************************************************************)
\* get_current_version and parse_version inside main's try block: a file that
\* cannot be read or decoded, and a version text that does not parse, both
\* end the run with 1
ReadVersion ==
    /\ pc = "read_version"
    /\ \E readable \in BOOLEAN :
          LET text == get_current_version(pkgVersion)
              v    == parse_version(text)
          IN  IF ~readable
              THEN /\ Emit("read package.json", <<>>, FALSE, FALSE)
                   /\ Return(1)
                   /\ UNCHANGED <<current_version, major, minor, patch>>
              ELSE /\ Emit("read package.json", text, v.ok, FALSE)
                   /\ current_version' = text
                   /\ IF v.ok
                      THEN /\ major' = v.major
                           /\ minor' = v.minor
                           /\ patch' = v.patch
                           /\ Goto("ask_increment")
                      ELSE /\ UNCHANGED <<major, minor, patch>>
                           /\ Return(1)
    /\ UNCHANGED <<files, increment_type, new_version, repo, invalid>>

\* ask_version_increment: one pass of the while loop
AskIncrement ==
    /\ pc = "ask_increment"
    /\ \E choice \in Choices :
          IF choice \in ValidChoices
          THEN /\ Emit("ask increment", <<choice>>, TRUE, FALSE)
               /\ increment_type' = Directive(choice)
               /\ invalid' = invalid
               /\ Goto("compute")
          ELSE /\ invalid < MaxInvalid
               /\ Emit("ask increment", <<choice>>, FALSE, FALSE)
               /\ increment_type' = increment_type
               /\ invalid' = invalid + 1
               /\ Goto("ask_increment")
    /\ UNCHANGED <<files, current_version, major, minor, patch, new_version,
                   repo>>

\* main, lines 345-357
ComputeNewVersion ==
    /\ pc = "compute"
    /\ LET t == Increment(increment_type, major, minor, patch)
       IN  /\ major' = t[1]
           /\ minor' = t[2]
           /\ patch' = t[3]
           /\ new_version' = format_version(t[1], t[2], t[3])
    /\ Goto("ask_proceed")
    /\ UNCHANGED <<files, current_version, increment_type, repo, invalid,
                   log>>

\* AskProceed going on to the writes whatever the answer
AskProceed_Ignored ==
    /\ pc = "ask_proceed"
    /\ \E yes \in BOOLEAN :
          /\ Emit("ask proceed", TagName(new_version), yes, FALSE)
          /\ Goto("update_package")
    /\ UNCHANGED <<files, locals, repo, invalid>>

\* main, lines 359-365: the preview, then "Proceed with releasing v...?"
AskProceed ==
    /\ pc = "ask_proceed"
    /\ \E yes \in BOOLEAN :
          /\ Emit("ask proceed", TagName(new_version), yes, FALSE)
          /\ IF yes THEN Goto("update_package") ELSE Return(0)
    /\ UNCHANGED <<files, locals, repo, invalid>>

(***************************************************************************)
(* main, lines 367-394: the writes, the release commit, the tag.           *)
(***************************************************************************)
\* what update_json_version can do to a file: write it ("ok"), fail before
\* the file is opened for writing ("unchanged"), or fail after open(.., "w")
\* truncated it ("truncated")
WriteOutcomes == {"ok", "unchanged", "truncated"}

\* UpdatePackageJson going on to tauri.conf.json whatever the write did
UpdatePackageJson_IgnoresFailure ==
    /\ pc = "update_package"
    /\ \E res \in WriteOutcomes :
          /\ Emit("write package.json", new_version, res = "ok", FALSE)
          /\ pkgVersion' = IF res = "ok" THEN new_version ELSE pkgVersion
          /\ pkgIntact' = (res # "truncated")
          /\ Goto("update_tauri")
    /\ UNCHANGED <<pkgExists, tauriExists, tauriVersion, tauriIntact, locals,
                   repo, invalid>>

\* UpdatePackageJson leaving out the write of a version the file already holds
UpdatePackageJson_SkipsUnchanged ==
    /\ pc = "update_package"
    /\ IF new_version = pkgVersion
       THEN /\ Goto("update_tauri")
            /\ UNCHANGED <<pkgVersion, pkgIntact, log>>
       ELSE \E res \in WriteOutcomes :
               /\ Emit("write package.json", new_version, res = "ok", FALSE)
               /\ pkgVersion' = IF res = "ok" THEN new_version ELSE pkgVersion
               /\ pkgIntact' = (res # "truncated")
               /\ IF res = "ok" THEN Goto("update_tauri") ELSE Return(1)
    /\ UNCHANGED <<pkgExists, tauriExists, tauriVersion, tauriIntact, locals,
                   repo, invalid>>

\* update_json_version(package_json, new_version)
UpdatePackageJson ==
    /\ pc = "update_package"
    /\ \E res \in WriteOutcomes :
          /\ Emit("write package.json", new_version, res = "ok", FALSE)
          /\ pkgVersion' = IF res = "ok" THEN new_version ELSE pkgVersion
          /\ pkgIntact' = (res # "truncated")
          /\ IF res = "ok" THEN Goto("update_tauri") ELSE Return(1)
    /\ UNCHANGED <<pkgExists, tauriExists, tauriVersion, tauriIntact, locals,
                   repo, invalid>>

\* UpdateTauriConf going on to the commit whatever the write did
UpdateTauriConf_IgnoresFailure ==
    /\ pc = "update_tauri"
    /\ \E res \in WriteOutcomes :
          /\ Emit("write tauri.conf.json", new_version, res = "ok", FALSE)
          /\ tauriVersion' = IF res = "ok" THEN new_version ELSE tauriVersion
          /\ tauriIntact' = (res # "truncated")
          /\ Goto("git_add")
    /\ UNCHANGED <<pkgExists, tauriExists, pkgVersion, pkgIntact, locals,
                   repo, invalid>>

\* update_json_version(tauri_conf, new_version)
UpdateTauriConf ==
    /\ pc = "update_tauri"
    /\ \E res \in WriteOutcomes :
          /\ Emit("write tauri.conf.json", new_version, res = "ok", FALSE)
          /\ tauriVersion' = IF res = "ok" THEN new_version ELSE tauriVersion
          /\ tauriIntact' = (res # "truncated")
          /\ IF res = "ok" THEN Goto("git_add") ELSE Return(1)
    /\ UNCHANGED <<pkgExists, tauriExists, pkgVersion, pkgIntact, locals,
                   repo, invalid>>

\* GitAdd going on to the commit after a failed staging
GitAdd_IgnoresFailure ==
    /\ pc = "git_add"
    /\ \E ok \in BOOLEAN :
          /\ Emit("git add", <<>>, ok, FALSE)
          /\ Goto("git_commit")
    /\ UNCHANGED <<files, locals, repo, invalid>>

\* git_add_and_commit: git add <the two files>
GitAdd ==
    /\ pc = "git_add"
    /\ \E ok \in BOOLEAN :
          /\ Emit("git add", <<>>, ok, FALSE)
          /\ IF ok THEN Goto("git_commit") ELSE Return(1)
    /\ UNCHANGED <<files, locals, repo, invalid>>

\* GitCommit going on to the tag after a failed commit
GitCommit_IgnoresFailure ==
    /\ pc = "git_commit"
    /\ \E ok \in BOOLEAN :
          /\ Emit("git commit", ReleaseMessage(new_version), ok, FALSE)
          /\ commits' = IF ok
                        THEN Append(commits, ReleaseMessage(new_version))
                        ELSE commits
          /\ Goto("tag_list")
    /\ UNCHANGED <<files, locals, localTag, remoteTag, invalid>>

\* git_add_and_commit: git commit -m "chore: release v{version}"
GitCommit ==
    /\ pc = "git_commit"
    /\ \E ok \in BOOLEAN :
          /\ Emit("git commit", ReleaseMessage(new_version), ok, FALSE)
          /\ IF ok
             THEN /\ commits' = Append(commits, ReleaseMessage(new_version))
                  /\ Goto("tag_list")
             ELSE /\ commits' = commits
                  /\ Return(1)
    /\ UNCHANGED <<files, locals, localTag, remoteTag, invalid>>

\* git_create_and_push_tag: git tag -l <tag>; only a successful listing that
\* prints the tag leads to the prompt, a failed listing goes on to create
TagList ==
    /\ pc = "tag_list"
    /\ \E ok \in BOOLEAN :
          /\ Emit("git tag -l", TagName(new_version), ok, ok /\ localTag)
          /\ IF ok /\ localTag THEN Goto("ask_recreate")
             ELSE Goto("tag_create")
    /\ UNCHANGED <<files, locals, repo, invalid>>

\* AskRecreate treating a "no" as a clean exit
AskRecreate_ReturnsZero ==
    /\ pc = "ask_recreate"
    /\ \E yes \in BOOLEAN :
          /\ Emit("ask recreate", TagName(new_version), yes, FALSE)
          /\ IF yes THEN Goto("tag_delete") ELSE Return(0)
    /\ UNCHANGED <<files, locals, repo, invalid>>

\* git_create_and_push_tag: "Do you want to delete and recreate it?"
AskRecreate ==
    /\ pc = "ask_recreate"
    /\ \E yes \in BOOLEAN :
          /\ Emit("ask recreate", TagName(new_version), yes, FALSE)
          /\ IF yes THEN Goto("tag_delete") ELSE Return(1)
    /\ UNCHANGED <<files, locals, repo, invalid>>

\* git_create_and_push_tag: git tag -d <tag>
TagDelete ==
    /\ pc = "tag_delete"
    /\ \E ok \in BOOLEAN :
          /\ Emit("git tag -d", TagName(new_version), ok, FALSE)
          /\ IF ok
             THEN /\ localTag' = FALSE
                  /\ Goto("tag_delete_remote")
             ELSE /\ localTag' = localTag
                  /\ Return(1)
    /\ UNCHANGED <<files, locals, remoteTag, commits, invalid>>

\* TagDeleteRemote ending the run when the remote tag cannot be deleted
TagDeleteRemote_Aborts ==
    /\ pc = "tag_delete_remote"
    /\ \E ok \in (IF remoteTag THEN BOOLEAN ELSE {FALSE}) :
          /\ Emit("git push :tag", TagName(new_version), ok, FALSE)
          /\ remoteTag' = IF ok THEN FALSE ELSE remoteTag
          /\ IF ok THEN Goto("tag_create") ELSE Return(1)
    /\ UNCHANGED <<files, locals, localTag, commits, invalid>>

\* git_create_and_push_tag: git push origin :refs/tags/<tag>; its failure is
\* only a warning.  git deletes a remote tag only where there is one.
TagDeleteRemote ==
    /\ pc = "tag_delete_remote"
    /\ \E ok \in (IF remoteTag THEN BOOLEAN ELSE {FALSE}) :
          /\ Emit("git push :tag", TagName(new_version), ok, FALSE)
          /\ remoteTag' = IF ok THEN FALSE ELSE remoteTag
          /\ Goto("tag_create")
    /\ UNCHANGED <<files, locals, localTag, commits, invalid>>

\* git_create_and_push_tag: git tag <tag>; git refuses a tag that exists
TagCreate ==
    /\ pc = "tag_create"
    /\ \E ok \in (IF localTag THEN {FALSE} ELSE BOOLEAN) :
          /\ Emit("git tag", TagName(new_version), ok, FALSE)
          /\ IF ok
             THEN /\ localTag' = TRUE
                  /\ Goto("tag_push")
             ELSE /\ localTag' = localTag
                  /\ Return(1)
    /\ UNCHANGED <<files, locals, remoteTag, commits, invalid>>

\* TagPush reporting success whatever the push did
TagPush_AlwaysZero ==
    /\ pc = "tag_push"
    /\ \E ok \in (IF remoteTag THEN {FALSE} ELSE BOOLEAN) :
          /\ Emit("git push tag", TagName(new_version), ok, FALSE)
          /\ remoteTag' = (remoteTag \/ ok)
          /\ Return(0)
    /\ UNCHANGED <<files, locals, localTag, commits, invalid>>

\* TagPush deleting the local tag again when the push fails
TagPush_RollsBack ==
    /\ pc = "tag_push"
    /\ \E ok \in (IF remoteTag THEN {FALSE} ELSE BOOLEAN) :
          /\ Emit("git push tag", TagName(new_version), ok, FALSE)
          /\ remoteTag' = (remoteTag \/ ok)
          /\ localTag' = ok
          /\ IF ok THEN Return(0) ELSE Return(1)
    /\ UNCHANGED <<files, locals, commits, invalid>>

\* git_create_and_push_tag: git push origin <tag>; the remote rejects a tag
\* it already holds for another commit
TagPush ==
    /\ pc = "tag_push"
    /\ \E ok \in (IF remoteTag THEN {FALSE} ELSE BOOLEAN) :
          /\ Emit("git push tag", TagName(new_version), ok, FALSE)
          /\ remoteTag' = (remoteTag \/ ok)
          /\ IF ok THEN Return(0) ELSE Return(1)
    /\ UNCHANGED <<files, locals, localTag, commits, invalid>>

Next ==
    \/ MissingPackageJson
    \/ MissingTauriConf
    \/ FilesFound
    \/ GitStatus
    \/ AskCommit
    \/ AskContinue
    \/ CommitMessage
    \/ StageAll
    \/ CommitPending
    \/ GitRemote
    \/ ReadVersion
    \/ AskIncrement
    \/ ComputeNewVersion
    \/ AskProceed
    \/ UpdatePackageJson
    \/ UpdateTauriConf
    \/ GitAdd
    \/ GitCommit
    \/ TagList
    \/ AskRecreate
    \/ TagDelete
    \/ TagDeleteRemote
    \/ TagCreate
    \/ TagPush

Spec == Init /\ [][Next]_vars

(***************************************************************************)
(* Steps 4 to 6 alone, from the state main() is in once the files, the      *)
(* working tree and the remote have passed, over every version text of up  *)
(* to MaxLen characters and over texts whose three segments exercise what  *)
(* int() accepts and rejects.                                              *)
(***************************************************************************)
Alphabet == {"0", "1", ".", "v", "-"}

Enumerated == UNION {[1..n -> Alphabet] : n \in 0..MaxLen}

Segments ==
    { <<"1">>, <<"+", "1">>, <<" ", "1">>, <<"1", " ">>, <<"1", "_", "0">>,
      <<"1", "_", "_", "0">>, <<"_", "1">>, <<"1", "_">>, <<"+">>,
      <<"1", " ", "1">>, <<"-", " ", "1">>, <<"0", "7">>, <<"x">> }

Composed ==
    {a \o <<".">> \o b \o <<".">> \o c : a \in Segments, b \in Segments,
                                          c \in Segments}

\* texts of more than three segments: a version followed by further segments
Bases ==
    { <<"1", ".", "2", ".", "3">>,
      <<"v", "0", ".", "7", ".", "1", "0">>,
      <<"-", "4", ".", " ", "5", ".", "6", "_", "0">> }

Tails == Segments \cup {<<>>, <<"x", ".", "y">>, <<".", ".">>, <<"4", ".", "5">>}

Suffixed == {b \o <<".">> \o t : b \in Bases, t \in Tails}

VersionTexts == Enumerated \cup Composed \cup Suffixed

InitVersion ==
    /\ pc = "read_version"
    /\ exitCode = Running
    /\ pkgExists = TRUE
    /\ tauriExists = TRUE
    /\ pkgVersion \in VersionTexts
    /\ tauriVersion = DefaultVersion
    /\ pkgIntact = TRUE
    /\ tauriIntact = TRUE
    /\ current_version = <<>>
    /\ major = 0
    /\ minor = 0
    /\ patch = 0
    /\ increment_type = "unset"
    /\ new_version = <<>>
    /\ localTag = FALSE
    /\ remoteTag = FALSE
    /\ commits = <<>>
    /\ invalid = 0
    /\ log = << [op |-> "git status", arg |-> <<>>, ok |-> TRUE,
                 out |-> FALSE],
                [op |-> "git remote", arg |-> <<>>, ok |-> TRUE,
                 out |-> TRUE] >>

NextVersion ==
    \/ ReadVersion
    \/ AskIncrement
    \/ ComputeNewVersion

SpecVersion == InitVersion /\ [][NextVersion]_vars

(***************************************************************************)
(* Vocabulary of the properties.                                           *)
(***************************************************************************)
\* the last entry of log, an entry of no operation while log is empty
Last ==
    IF log = <<>>
    THEN [op |-> "", arg |-> <<>>, ok |-> FALSE, out |-> FALSE]
    ELSE log[Len(log)]

\* the text without its leading "v"s
StripV(s) ==
    LET n == CHOOSE k \in 0..Len(s) :
                 /\ \A j \in 1..k : s[j] = "v"
                 /\ (k < Len(s) => s[k + 1] # "v")
    IN  SubSeq(s, n + 1, Len(s))

DotsOf(s) == {i \in 1..Len(s) : s[i] = "."}

SegmentCount(s) == Cardinality(DotsOf(s)) + 1

\* the position of the k-th dot of s, 0 before the text and Len(s) + 1
\* after it
DotAt(s, k) ==
    IF k = 0 THEN 0
    ELSE IF k > Cardinality(DotsOf(s)) THEN Len(s) + 1
    ELSE CHOOSE i \in DotsOf(s) :
             Cardinality({j \in DotsOf(s) : j < i}) = k - 1

\* the k-th dot-separated segment of s
SegmentAt(s, k) == SubSeq(s, DotAt(s, k - 1) + 1, DotAt(s, k) - 1)

\* a decimal number as format_version writes one: digits only, no
\* superfluous leading zero
CanonicalNumber(seg) ==
    /\ seg # <<>>
    /\ \A i \in 1..Len(seg) : IsDigit(seg[i])
    /\ (Len(seg) > 1 => seg[1] # "0")

\* a well-formed "M.m.p"
WellFormed(s) ==
    /\ SegmentCount(s) = 3
    /\ \A k \in 1..3 : CanonicalNumber(SegmentAt(s, k))

\* a numeric segment: what int() reads as a decimal integer, that is blanks
\* around an optional sign and digits, single underscores between digits
Numeric(seg) ==
    \E a \in 1..Len(seg) : \E b \in a..Len(seg) :
        LET first == IF seg[a] \in {"+", "-"} THEN a + 1 ELSE a
        IN  /\ \A i \in 1..(a - 1) : seg[i] = " "
            /\ \A i \in (b + 1)..Len(seg) : seg[i] = " "
            /\ first <= b
            /\ \A i \in first..b :
                  \/ IsDigit(seg[i])
                  \/ /\ seg[i] = "_"
                     /\ first < i
                     /\ i < b
                     /\ IsDigit(seg[i - 1])
                     /\ IsDigit(seg[i + 1])

\* the run has computed its new version
Computed ==
    \E i \in 1..Len(log) : log[i].op = "ask increment" /\ log[i].ok

\* the run has read and parsed the version of package.json
Parsed ==
    \E i \in 1..Len(log) : log[i].op = "read package.json" /\ log[i].ok

SucceededBefore(op, i) ==
    \E j \in 1..(i - 1) : log[j].op = op /\ log[j].ok

(***************************************************************************)
(* C1                                                                      *)
(***************************************************************************)
\* C1: once the run has computed the new version, the triple it holds is the
\* triple parsed from the version text it read, incremented as the chosen
\* directive says: major gives (M+1,0,0), minor (M,m+1,0), patch (M,m,p+1),
\* none (M,m,p); and new_version is the text of that triple.
C1_IncrementRule ==
    (Computed /\ pc # "compute") =>
        LET v == parse_version(current_version)
        IN  /\ increment_type = "major" =>
                  <<major, minor, patch>> = <<v.major + 1, 0, 0>>
            /\ increment_type = "minor" =>
                  <<major, minor, patch>> = <<v.major, v.minor + 1, 0>>
            /\ increment_type = "patch" =>
                  <<major, minor, patch>> = <<v.major, v.minor, v.patch + 1>>
            /\ increment_type = "none" =>
                  <<major, minor, patch>> = <<v.major, v.minor, v.patch>>
            /\ increment_type \in {"major", "minor", "patch", "none"}
            /\ new_version =
                  ToStr(major) \o <<".">> \o ToStr(minor) \o <<".">>
                      \o ToStr(patch)

\* C1: a minor increment of 0.9.9 has been computed
C1_Witness ==
    /\ pc = "ask_proceed"
    /\ increment_type = "minor"
    /\ current_version = <<"0", ".", "9", ".", "9">>
    /\ <<major, minor, patch>> = <<0, 10, 0>>
    /\ new_version = <<"0", ".", "1", "0", ".", "0">>

(***************************************************************************)
(* C5                                                                      *)
(***************************************************************************)
\* C5 as stated: for a well-formed "M.m.p", with or without a leading "v",
\* formatting the parsed triple (directive none) gives the text back.
C5_RoundTripAsStated ==
    ( /\ pc = "ask_proceed"
      /\ increment_type = "none"
      /\ \/ WellFormed(current_version)
         \/ /\ current_version # <<>>
            /\ Head(current_version) = "v"
            /\ WellFormed(Tail(current_version)) )
        => new_version = current_version

\* C5 amended: for a well-formed "M.m.p" without a leading "v" formatting the
\* parsed triple gives the text back; for a well-formed text with a leading
\* "v" it gives the text without the "v".
C5_RoundTrip ==
    ( /\ pc = "ask_proceed"
      /\ increment_type = "none" )
        => /\ WellFormed(current_version) => new_version = current_version
           /\ ( /\ current_version # <<>>
                /\ Head(current_version) = "v"
                /\ WellFormed(Tail(current_version)) )
                 => new_version = Tail(current_version)

\* C5: "v1.0.1" has been parsed and formatted back, without its "v"
C5_Witness ==
    /\ pc = "ask_proceed"
    /\ increment_type = "none"
    /\ current_version = <<"v", "1", ".", "0", ".", "1">>
    /\ new_version = <<"1", ".", "0", ".", "1">>

(***************************************************************************)
(* C6                                                                      *)
(***************************************************************************)
\* the run has read this text from package.json
HasRead(text) ==
    \E i \in 1..Len(log) :
        log[i].op = "read package.json" /\ log[i].arg = text

\* the run stopped at step 4 with exit code 1
AbortedAtStep4 ==
    /\ pc = "done"
    /\ exitCode = 1
    /\ Last.op = "read package.json"
    /\ ~Last.ok

\* C6 as stated: a version text with fewer than 3 dot-separated segments, or
\* with any non-numeric segment, makes the run abort at step 4 with exit
\* code 1.
C6_RejectsAsStated ==
    LET text == get_current_version(pkgVersion)
        core == StripV(text)
    IN  ( /\ HasRead(text)
          /\ \/ SegmentCount(core) < 3
             \/ \E k \in 1..SegmentCount(core) : ~Numeric(SegmentAt(core, k)) )
            => AbortedAtStep4

\* C6 amended: a version text that, its leading "v"s dropped, has fewer than 3
\* dot-separated segments, or in which one of the first three segments is
\* non-numeric, makes the run abort at step 4 with exit code 1.
C6_Rejects ==
    LET text == get_current_version(pkgVersion)
        core == StripV(text)
    IN  ( /\ HasRead(text)
          /\ \/ SegmentCount(core) < 3
             \/ \E k \in 1..3 : ~Numeric(SegmentAt(core, k)) )
            => AbortedAtStep4

\* C6: "0.v.0", whose second segment is not numeric, has been rejected
C6_Witness ==
    /\ AbortedAtStep4
    /\ current_version = <<"0", ".", "v", ".", "0">>
    /\ Last.arg = current_version

(***************************************************************************)
(* C7                                                                      *)
(***************************************************************************)
\* C7: once the run is past step 4, the three components it holds are
\* non-negative.
C7_NonNegative ==
    Parsed => major >= 0 /\ minor >= 0 /\ patch >= 0

(***************************************************************************)
(* C2                                                                      *)
(***************************************************************************)
\* the steps of the pipeline after the confirmation: a failure of one of them
\* is reported by its function as False
PipelineSteps ==
    {"write package.json", "write tauri.conf.json", "git add", "git commit",
     "git tag -d", "git tag", "git push tag"}

\* C2: a metadata file is written only after the user confirmed; the release
\* commit (its staging included) is attempted only after both files were
\* written successfully; the tag is created only after the release commit
\* succeeded; the tag is pushed only after it was created; and a pipeline
\* step that failed is the last thing the run did.
C2_Gated ==
    \A i \in 1..Len(log) :
        /\ log[i].op \in {"write package.json", "write tauri.conf.json"}
              => SucceededBefore("ask proceed", i)
        /\ log[i].op \in {"git add", "git commit"}
              => /\ SucceededBefore("write package.json", i)
                 /\ SucceededBefore("write tauri.conf.json", i)
        /\ log[i].op = "git tag" => SucceededBefore("git commit", i)
        /\ log[i].op = "git push tag" => SucceededBefore("git tag", i)
        /\ (log[i].op \in PipelineSteps /\ ~log[i].ok)
              => i = Len(log) /\ pc = "done"

\* C2: a run went through the whole pipeline, deleting and recreating a tag
\* on its way
C2_Witness ==
    /\ pc = "done"
    /\ exitCode = 0
    /\ Last.op = "git push tag"
    /\ Last.ok
    /\ \E i \in 1..Len(log) : log[i].op = "git tag -d" /\ log[i].ok

(***************************************************************************)
(* C3                                                                      *)
(***************************************************************************)
\* the run ended on a "no" at this confirmation prompt
Declined(op) ==
    /\ pc = "done"
    /\ log # <<>>
    /\ Last.op = op
    /\ ~Last.ok

\* C3 as stated: a run that ends on a "no" at "Continue without committing?",
\* at "Proceed with releasing" or at "delete and recreate" exits with 0.
C3_CleanExitAsStated ==
    ( \/ Declined("ask continue")
      \/ Declined("ask proceed")
      \/ Declined("ask recreate") ) => exitCode = 0

\* C3 amended: a run that ends on a "no" at "Proceed with releasing" exits
\* with 0; a run that ends on a "no" at "Continue without committing?" or at
\* "delete and recreate" exits with 1.
C3_DeclineExitCodes ==
    /\ Declined("ask proceed") => exitCode = 0
    /\ Declined("ask continue") => exitCode = 1
    /\ Declined("ask recreate") => exitCode = 1

\* C3: runs ended on a "no" at the tag prompt
C3_Witness ==
    /\ Declined("ask recreate")
    /\ exitCode = 1
    /\ localTag

(***************************************************************************)
(* C4                                                                      *)
(***************************************************************************)
Commands ==
    {"git status", "git add -A", "git commit pending", "git remote",
     "git add", "git commit", "git tag -l", "git tag -d", "git push :tag",
     "git tag", "git push tag"}

\* the commands whose failure the run only notes
Tolerated == {"git tag -l", "git push :tag"}

\* C4 as stated: a command that failed is the last thing the run did, and the
\* run ended with exit code 1.
C4_AbortsAsStated ==
    \A i \in 1..Len(log) :
        (log[i].op \in Commands /\ ~log[i].ok)
            => i = Len(log) /\ pc = "done" /\ exitCode = 1

\* C4 amended: a failed status, remote, add, commit, tag delete, tag create
\* or tag push is the last thing the run did and the run ended with exit code
\* 1; after a failed tag list or a failed remote tag delete the run goes on
\* to create the tag, and ends as the later steps decide.
C4_Aborts ==
    \A i \in 1..Len(log) :
        /\ (log[i].op \in (Commands \ Tolerated) /\ ~log[i].ok)
              => i = Len(log) /\ pc = "done" /\ exitCode = 1
        /\ (log[i].op \in Tolerated /\ ~log[i].ok)
              => IF i = Len(log) THEN pc = "tag_create"
                 ELSE log[i + 1].op = "git tag"

\* C4: the tag listing failed, the run went on to create the tag, and the
\* failure of that ended it with 1
C4_Witness ==
    /\ pc = "done"
    /\ exitCode = 1
    /\ Len(log) >= 2
    /\ Last.op = "git tag"
    /\ ~Last.ok
    /\ log[Len(log) - 1].op = "git tag -l"
    /\ ~log[Len(log) - 1].ok

(***************************************************************************)
(* C8                                                                      *)
(***************************************************************************)
\* C8: with package.json or tauri.conf.json missing, the run issues no
\* prompt and no command, reads and writes no file, and can only end with
\* exit code 1.
C8_MissingFile ==
    (~pkgExists \/ ~tauriExists) =>
        /\ log = <<>>
        /\ pc \in {"check_files", "done"}
        /\ pc = "done" => exitCode = 1
        /\ pkgIntact /\ tauriIntact
        /\ commits = <<>>

\* C8: a run ended because tauri.conf.json is missing
C8_Witness ==
    /\ pkgExists
    /\ ~tauriExists
    /\ pc = "done"
    /\ exitCode = 1

(***************************************************************************)
(* C9                                                                      *)
(***************************************************************************)
\* C9: a failed tag push is the last thing the run did; the run ended with
\* exit code 1, both files hold the new version, the release commit is the
\* last commit made and the tag exists locally.
C9_NoRollback ==
    \A i \in 1..Len(log) :
        (log[i].op = "git push tag" /\ ~log[i].ok) =>
            /\ i = Len(log)
            /\ pc = "done"
            /\ exitCode = 1
            /\ pkgVersion = new_version /\ pkgIntact
            /\ tauriVersion = new_version /\ tauriIntact
            /\ commits # <<>>
            /\ commits[Len(commits)] = ReleaseMessage(new_version)
            /\ localTag

\* C9: the push of the tag of 0.10.0 failed
C9_Witness ==
    /\ pc = "done"
    /\ exitCode = 1
    /\ Last.op = "git push tag"
    /\ ~Last.ok
    /\ new_version = <<"0", ".", "1", "0", ".", "0">>
    /\ pkgVersion = new_version

(***************************************************************************)
(* C10                                                                     *)
(***************************************************************************)
\* C10: a "no" at "Proceed with releasing" is the last thing the run did: the
\* run ended with exit code 0, package.json still holds the text that was
\* read, both files are intact, and no write, release commit or tag command
\* was issued.
C10_Declined ==
    \A i \in 1..Len(log) :
        (log[i].op = "ask proceed" /\ ~log[i].ok) =>
            /\ i = Len(log)
            /\ pc = "done"
            /\ exitCode = 0
            /\ current_version = get_current_version(pkgVersion)
            /\ pkgIntact /\ tauriIntact
            /\ tauriVersion \in TauriTexts
            /\ \A j \in 1..Len(log) :
                  log[j].op \notin PipelineSteps \cup Tolerated
            /\ \A j \in 1..Len(commits) :
                  commits[j] # ReleaseMessage(new_version)

\* C10: the release of 1.0.0 was declined
C10_Witness ==
    /\ Declined("ask proceed")
    /\ exitCode = 0
    /\ new_version = <<"1", ".", "0", ".", "0">>
    /\ pkgVersion = <<"v", "0", ".", "9", ".", "9">>

(***************************************************************************)
(* C11                                                                     *)
(***************************************************************************)
\* entry i of log is followed by the operation op: the next entry is op, or
\* entry i is the last one and the run stands at op's label
Then(i, op, label) ==
    IF i = Len(log) THEN pc = label ELSE log[i + 1].op = op

\* the text of the triple the run holds, written out digit by digit
TripleText ==
    ToStr(major) \o <<".">> \o ToStr(minor) \o <<".">> \o ToStr(patch)

\* C11: with directive none the triple is the one parsed from the text read
\* and new_version its text; and the run goes on as with any directive: a
\* confirmation is followed by the write of package.json, that write by the
\* write of tauri.conf.json, that by staging, commit, tag listing, and a
\* created tag by its push, each with the unchanged version.
C11_NoneRunsOn ==
    (Computed /\ pc # "compute" /\ increment_type = "none") =>
        LET v == parse_version(current_version)
        IN  /\ <<major, minor, patch>> = <<v.major, v.minor, v.patch>>
            /\ new_version = TripleText
            /\ \A i \in 1..Len(log) :
                  /\ (log[i].op = "ask proceed" /\ log[i].ok)
                        => Then(i, "write package.json", "update_package")
                  /\ (log[i].op = "write package.json" /\ log[i].ok)
                        => Then(i, "write tauri.conf.json", "update_tauri")
                  /\ (log[i].op = "write tauri.conf.json" /\ log[i].ok)
                        => Then(i, "git add", "git_add")
                  /\ (log[i].op = "git add" /\ log[i].ok)
                        => Then(i, "git commit", "git_commit")
                  /\ (log[i].op = "git commit" /\ log[i].ok)
                        => Then(i, "git tag -l", "tag_list")
                  /\ (log[i].op = "git tag -l" /\ ~log[i].out)
                        => Then(i, "git tag", "tag_create")
                  /\ (log[i].op = "git tag" /\ log[i].ok)
                        => Then(i, "git push tag", "tag_push")
                  /\ log[i].op \in {"write package.json",
                                    "write tauri.conf.json"}
                        => log[i].arg = TripleText
                  /\ log[i].op = "git commit"
                        => log[i].arg = <<"chore: release v">> \o TripleText
                  /\ log[i].op \in {"git tag -l", "git tag", "git push tag"}
                        => log[i].arg = <<"v">> \o TripleText

\* C11: a release of the unchanged version 1.1.0 went through to the push
C11_Witness ==
    /\ pc = "done"
    /\ exitCode = 0
    /\ increment_type = "none"
    /\ current_version = <<"1", ".", "1", ".", "0">>
    /\ new_version = current_version
    /\ Last.op = "git push tag"
    /\ Last.ok

(***************************************************************************)
(* C12                                                                     *)
(***************************************************************************)
Attempted(op) == \E j \in 1..Len(log) : log[j].op = op

\* C12 as stated: the two writes are attempted independently, so a run that
\* ended after a failed write of package.json has attempted the write of
\* tauri.conf.json too; and staging follows only two successful writes.
C12_IndependentAsStated ==
    /\ ( /\ pc = "done"
         /\ \E i \in 1..Len(log) :
               log[i].op = "write package.json" /\ ~log[i].ok )
          => Attempted("write tauri.conf.json")
    /\ \A i \in 1..Len(log) :
          log[i].op = "git add"
              => /\ SucceededBefore("write package.json", i)
                 /\ SucceededBefore("write tauri.conf.json", i)

\* C12 amended: the new version is written into package.json first; the
\* write of tauri.conf.json is attempted only after the write of
\* package.json succeeded, a failed write of either file is the last thing
\* the run did and ends it with exit code 1, and staging follows only two
\* successful writes of the new version.
C12_WritesInTurn ==
    \A i \in 1..Len(log) :
        /\ log[i].op = "write tauri.conf.json"
              => /\ i > 1
                 /\ log[i - 1].op = "write package.json"
                 /\ log[i - 1].ok
                 /\ log[i - 1].arg = log[i].arg
        /\ ( /\ log[i].op \in {"write package.json", "write tauri.conf.json"}
             /\ ~log[i].ok )
              => i = Len(log) /\ pc = "done" /\ exitCode = 1
        /\ log[i].op \in {"write package.json", "write tauri.conf.json"}
              => log[i].arg = new_version
        /\ log[i].op = "git add"
              => /\ SucceededBefore("write package.json", i)
                 /\ SucceededBefore("write tauri.conf.json", i)
                 /\ pkgVersion = new_version
                 /\ tauriVersion = new_version

\* C12: the write of package.json failed and tauri.conf.json was not touched
C12_Witness ==
    /\ pc = "done"
    /\ exitCode = 1
    /\ Last.op = "write package.json"
    /\ ~Last.ok
    /\ ~Attempted("write tauri.conf.json")
    /\ tauriVersion # new_version

(***************************************************************************)
(* C13                                                                     *)
(***************************************************************************)
\* the status query reported a working tree that is not clean
DirtyTree ==
    /\ log # <<>>
    /\ log[1].op = "git status"
    /\ log[1].ok
    /\ log[1].out

\* the run has reached the remote check
PastStep2 == pc = "git_remote" \/ Attempted("git remote")

\* the user chose to commit, gave a non-empty message, and stage-all and the
\* commit under that message succeeded
CommittedPending ==
    /\ Len(log) >= 5
    /\ log[2].op = "ask commit" /\ log[2].ok
    /\ log[3].op = "ask message" /\ log[3].ok /\ log[3].arg # <<>>
    /\ log[4].op = "git add -A" /\ log[4].ok
    /\ log[5].op = "git commit pending" /\ log[5].ok
    /\ log[5].arg = log[3].arg
    /\ commits # <<>> /\ commits[1] = log[3].arg

\* the user declined to commit and confirmed to continue
ContinuedUnclean ==
    /\ Len(log) >= 3
    /\ log[2].op = "ask commit" /\ ~log[2].ok
    /\ log[3].op = "ask continue" /\ log[3].ok

\* C13: with a working tree that is not clean the run reaches the remote
\* check only after a successful commit of everything under a non-empty
\* message, or after the user declined to commit and confirmed to continue;
\* a failed status query, an empty message, a failed stage-all or commit and
\* a declined continuation are each the last thing the run did and end it
\* with exit code 1.
C13_DirtyTree ==
    /\ (DirtyTree /\ PastStep2) => (CommittedPending \/ ContinuedUnclean)
    /\ \A i \in 1..Len(log) :
          ( /\ log[i].op \in {"git status", "ask message", "git add -A",
                              "git commit pending", "ask continue"}
            /\ ~log[i].ok )
              => /\ i = Len(log)
                 /\ pc = "done"
                 /\ exitCode = 1
                 /\ ~Attempted("git remote")
                 /\ ~Attempted("ask increment")
                 /\ ~Attempted("write package.json")

\* C13: a run committed its pending changes and reached the remote check
C13_Witness ==
    /\ DirtyTree
    /\ CommittedPending
    /\ Attempted("git remote")
    /\ commits = <<UserMessage>>

(***************************************************************************)
(* C14                                                                     *)
(***************************************************************************)
\* C14: the prompt to delete and recreate follows a listing that showed the
\* tag; the local tag is deleted only right after a "y" at that prompt; a "n"
\* is the last thing the run did, with the tag still in place and no delete,
\* create or push issued; a successful local delete is followed by the remote
\* delete, and the remote delete, failed or not, by the creation of the tag,
\* which, when it succeeds, is followed by the push.
C14_ExistingTag ==
    \A i \in 1..Len(log) :
        /\ log[i].op = "ask recreate"
              => /\ i > 1
                 /\ log[i - 1].op = "git tag -l"
                 /\ log[i - 1].ok
                 /\ log[i - 1].out
        /\ log[i].op = "git tag -d"
              => /\ i > 1
                 /\ log[i - 1].op = "ask recreate"
                 /\ log[i - 1].ok
        /\ (log[i].op = "ask recreate" /\ ~log[i].ok)
              => /\ i = Len(log)
                 /\ pc = "done"
                 /\ exitCode = 1
                 /\ localTag
                 /\ ~Attempted("git tag -d")
                 /\ ~Attempted("git push :tag")
                 /\ ~Attempted("git tag")
                 /\ ~Attempted("git push tag")
        /\ (log[i].op = "git tag -d" /\ log[i].ok)
              => Then(i, "git push :tag", "tag_delete_remote")
        /\ log[i].op = "git push :tag"
              => /\ i > 1
                 /\ log[i - 1].op = "git tag -d"
                 /\ log[i - 1].ok
                 /\ Then(i, "git tag", "tag_create")
        /\ (log[i].op = "git tag" /\ log[i].ok)
              => Then(i, "git push tag", "tag_push")

\* C14: the remote delete failed, the tag was recreated and pushed all the same
C14_Witness ==
    /\ pc = "done"
    /\ exitCode = 0
    /\ localTag
    /\ remoteTag
    /\ Last.op = "git push tag"
    /\ Last.ok
    /\ \E i \in 1..Len(log) : log[i].op = "git push :tag" /\ ~log[i].ok

(***************************************************************************)
(* C15                                                                     *)
(***************************************************************************)
\* the number written by the digits of d
RECURSIVE DecimalValue(_)
DecimalValue(d) ==
    IF d = <<>> THEN 0
    ELSE 10 * DecimalValue(SubSeq(d, 1, Len(d) - 1)) + DigitVal(d[Len(d)])

\* the number a numeric segment denotes
NumberOf(seg) ==
    LET n == DecimalValue(SelectSeq(seg, IsDigit))
    IN  IF \E i \in 1..Len(seg) : seg[i] = "-" THEN 0 - n ELSE n

\* C15: a version text of more than three segments whose first three
\* segments are numeric is parsed, and the triple is the three numbers of
\* those segments, whatever the further segments hold.
C15_ExtraSegmentsIgnored ==
    LET text == get_current_version(pkgVersion)
        core == StripV(text)
    IN  ( /\ HasRead(text)
          /\ SegmentCount(core) > 3
          /\ \A k \in 1..3 : Numeric(SegmentAt(core, k)) )
            => /\ Parsed
               /\ pc # "done"
               /\ pc = "ask_increment"
                     => /\ major = NumberOf(SegmentAt(core, 1))
                        /\ minor = NumberOf(SegmentAt(core, 2))
                        /\ patch = NumberOf(SegmentAt(core, 3))

\* C15: "v0.7.10.x.y" has been parsed to (0, 7, 10)
C15_Witness ==
    /\ pc = "ask_increment"
    /\ current_version =
          <<"v", "0", ".", "7", ".", "1", "0", ".", "x", ".", "y">>
    /\ <<major, minor, patch>> = <<0, 7, 10>>

(***************************************************************************)
(* C16                                                                     *)
(***************************************************************************)
\* the triple that the directive makes of a parsed version
Expected(v, directive) ==
    IF directive = "major" THEN <<v.major + 1, 0, 0>>
    ELSE IF directive = "minor" THEN <<v.major, v.minor + 1, 0>>
    ELSE IF directive = "patch" THEN <<v.major, v.minor, v.patch + 1>>
    ELSE <<v.major, v.minor, v.patch>>

SucceededWith(op, arg) ==
    \E i \in 1..Len(log) : log[i].op = op /\ log[i].ok /\ log[i].arg = arg

\* C16: a run that ended with exit code 0 after the confirmation has left
\* both files with one and the same version text, the text of the version
\* read from package.json incremented as chosen; it made the commit
\* "chore: release v<that text>" and created and pushed the tag "v<that
\* text>", which now exists locally and on the remote.
C16_Released ==
    ( /\ pc = "done"
      /\ exitCode = 0
      /\ \E i \in 1..Len(log) : log[i].op = "ask proceed" /\ log[i].ok )
        => /\ SucceededWith("read package.json", current_version)
           /\ <<major, minor, patch>> =
                 Expected(parse_version(current_version), increment_type)
           /\ new_version = TripleText
           /\ pkgVersion = new_version /\ pkgIntact
           /\ tauriVersion = new_version /\ tauriIntact
           /\ SucceededWith("write package.json", new_version)
           /\ SucceededWith("write tauri.conf.json", new_version)
           /\ SucceededWith("git commit", <<"chore: release v">> \o new_version)
           /\ commits # <<>>
           /\ commits[Len(commits)] = <<"chore: release v">> \o new_version
           /\ SucceededWith("git tag", <<"v">> \o new_version)
           /\ SucceededWith("git push tag", <<"v">> \o new_version)
           /\ Last.op = "git push tag"
           /\ localTag
           /\ remoteTag

\* C16: 0.9.9 was released as 0.10.0
C16_Witness ==
    /\ pc = "done"
    /\ exitCode = 0
    /\ current_version = <<"0", ".", "9", ".", "9">>
    /\ pkgVersion = <<"0", ".", "1", "0", ".", "0">>
    /\ tauriVersion = pkgVersion
    /\ commits = << <<"chore: release v", "0", ".", "1", "0", ".", "0">> >>
    /\ localTag
    /\ remoteTag

(***************************************************************************)
(* C17                                                                     *)
(***************************************************************************)
\* C17: as long as the run has not opened tauri.conf.json for a write, the
\* file is as it was; once it has, package.json holds the new version,
\* intact, written by a successful write of that same version; so
\* tauri.conf.json never holds a version this run wrote while package.json
\* does not.
C17_PackageFirst ==
    /\ ~Attempted("write tauri.conf.json")
          => tauriIntact /\ tauriVersion \in TauriTexts
    /\ \A i \in 1..Len(log) :
          log[i].op = "write tauri.conf.json"
              => /\ \E j \in 1..(i - 1) :
                       /\ log[j].op = "write package.json"
                       /\ log[j].ok
                       /\ log[j].arg = log[i].arg
                 /\ pkgVersion = log[i].arg
                 /\ pkgIntact
    /\ ~( /\ SucceededWith("write tauri.conf.json", new_version)
          /\ pkgVersion # new_version )

\* C17: the run ended inside step 7 with package.json at the new version
\* 1.0.0 and tauri.conf.json at its old one
C17_Witness ==
    /\ pc = "done"
    /\ exitCode = 1
    /\ Last.op = "write tauri.conf.json"
    /\ ~Last.ok
    /\ pkgVersion = <<"1", ".", "0", ".", "0">>
    /\ new_version = pkgVersion
    /\ tauriVersion = <<"9", ".", "9", ".", "9">>
    /\ tauriIntact

(***************************************************************************)
(* C18                                                                     *)
(***************************************************************************)
\* A run is one sequential process: every command returns and every prompt
\* is answered, so the run always takes its next step; the user gives at
\* most MaxInvalid invalid answers before a valid one.
SpecLive == Init /\ [][Next]_vars /\ WF_vars(Next)

\* the run has returned 0 or 1
Exited == pc = "done" /\ exitCode \in {0, 1}

\* only the increment prompt occurs more than once, in one unbroken row of
\* invalid answers ended by the valid one; no command occurs twice
OnlyPromptRepeats ==
    \A i \in 1..Len(log) :
        /\ \A j \in (i + 1)..Len(log) :
              log[i].op = log[j].op
                  => /\ log[i].op = "ask increment"
                     /\ \A k \in i..(j - 1) :
                           log[k].op = "ask increment" /\ ~log[k].ok
        /\ (log[i].op = "ask increment" /\ ~log[i].ok)
              => Then(i, "ask increment", "ask_increment")
        /\ (log[i].op = "ask increment" /\ log[i].ok)
              => IF i = Len(log) THEN pc \in {"compute", "ask_proceed"}
                 ELSE log[i + 1].op = "ask proceed"

\* C18: every run eventually exits with code 0 or 1; until then it has no
\* exit code; the increment prompt is the only step that repeats, exactly
\* while the answer is invalid, and no command is issued twice.
C18_Terminates ==
    /\ <>Exited
    /\ [](pc # "done" => exitCode = Running)
    /\ []OnlyPromptRepeats

\* C18: a run exited after an invalid and then a valid answer at the
\* increment prompt and a failed command
C18_Witness ==
    /\ Exited
    /\ exitCode = 1
    /\ invalid = 1
    /\ \E i \in 1..Len(log) :
          /\ i < Len(log)
          /\ log[i].op = "ask increment" /\ ~log[i].ok
          /\ log[i + 1].op = "ask increment" /\ log[i + 1].ok
    /\ Last.op = "git commit"
    /\ ~Last.ok

=======================================================================
